---------------------------- MODULE Spec2Model ----------------------------
(***************************************************************************)
(* Model of the nova-agent-debugger chat session and history               *)
(* synchronisation core:                                                   *)
(*   - the discovery route        (src/app/api/discover/route.ts)          *)
(*   - the session controller     (src/app/home-client.tsx)                *)
(*   - the conversation directory (src/unnamed/part_000, ChatSidebar)      *)
(*                                                                         *)
(* React state is modelled by one variable per useState cell.  An event   *)
(* handler together with the effects its state changes trigger is one     *)
(* atomic action; the continuation of an awaited request is a separate    *)
(* action that runs with the values the handler captured when it started. *)
(* Strings on which the code works character by character (titles) are    *)
(* sequences of UTF-16 code units, as JavaScript strings are.              *)
(***************************************************************************)
EXTENDS Naturals, Sequences, FiniteSets, TLC

VARIABLES
    \* ---- discovery route (one POST /api/discover request) ----
    rpc,            \* position in POST: "idle", "loop", "await", "after", "done"
    req,            \* the request body: "bad_body", "no_url" or "url"
    cand,           \* what each of the three candidate endpoints answers
    pos,            \* index in pathsToTry of the for-loop
    metadata,       \* let metadata
    fetchError,     \* let fetchError
    probeLog,       \* the candidate paths fetched so far, in order
    response,       \* the NextResponse returned
    \* ---- session controller (HomeClient state) ----
    chatId,
    persist,
    serviceUrl,
    agentInfo,
    status,
    discoveryError,
    chatError,
    isDiscovering,
    initialMessages,
    isLoadingMessages,
    isChatSidebarOpen,
    histInflight,   \* history fetches awaiting their response: chat id -> how many
    mints,          \* how many ephemeral ids have been generated after the first
    \* ---- conversation directory (ChatSidebar state; mounted iff persist) ----
    chats,
    loading,
    error,
    editingChatId,
    editingTitle,
    updatingChatId,
    deleteConfirm,
    requests,       \* list / rename / delete requests awaiting their response,
                    \* each with the values its handler captured
    issued,         \* how many directory requests have been sent so far
    \* ---- the chat view (HomeClient and the useChatStream hook) ----
    streamMessages, \* the hook's `messages`
    sent,           \* the arguments of the calls of the hook's sendMessage, in order
    \* ---- pure functions applied to drawn inputs ----
    fn,             \* which function: "groupedChats" or "uniqueToolSteps"
    arg,            \* its input
    result,         \* its result, Null before it is applied
    \* ---- observation ----
    event           \* the handler or continuation that ran last (ghost)

routeVars == <<rpc, req, cand, pos, metadata, fetchError, probeLog, response>>

sessionVars == <<chatId, persist, serviceUrl, agentInfo, status, discoveryError,
                 chatError, isDiscovering, initialMessages, isLoadingMessages,
                 isChatSidebarOpen, histInflight, mints>>

sidebarVars == <<chats, loading, error, editingChatId, editingTitle,
                 updatingChatId, deleteConfirm, requests>>

vars == <<rpc, req, cand, pos, metadata, fetchError, probeLog, response,
          chatId, persist, serviceUrl, agentInfo, status, discoveryError,
          chatError, isDiscovering, initialMessages, isLoadingMessages,
          isChatSidebarOpen, histInflight, mints,
          chats, loading, error, editingChatId, editingTitle,
          updatingChatId, deleteConfirm, requests, issued, event,
          streamMessages, sent, fn, arg, result>>

viewVars == <<streamMessages, sent>>

funVars == <<fn, arg, result>>

Null == [null |-> TRUE]

(***************************************************************************)
(*                          DISCOVERY ROUTE                                *)
(***************************************************************************)

\* pathsToTry, relative to the normalised base URL
pathsToTry == << "/.well-known/agent-config", "/api/agent-config", "" >>

NumCandidates == Len(pathsToTry)

\* JSON bodies a candidate may answer.  A missing field and an empty string
\* are both falsy in `metadata.name || metadata.agent_id`; "" stands for both.
\* `tag` is passthrough metadata that tells the candidates' bodies apart.
Bodies(i) ==
    [name : {"", "x"}, agent_id : {"", "a1"}, version : {"", "1.0"}, tag : {i}]

\* A JSON body that is a falsy value other than null (0, false, ""), and one
\* that is a truthy primitive (true, a non-zero number): reading .name or
\* .agent_id of either gives undefined and does not throw.
JsonFalsy == [falsy |-> TRUE]
JsonTrue == [falsy |-> FALSE]

\* every JSON value response.json() may return without throwing, but null
JsonValues(i) == Bodies(i) \cup {JsonFalsy, JsonTrue}

\* What one candidate endpoint can do.
Outcomes(i) ==
    {[kind |-> "throw", error |-> "timeout"],         \* abort after 5 s / network failure
     [kind |-> "http_error"],                         \* !response.ok
     [kind |-> "not_json"],                           \* content-type is not application/json
     [kind |-> "bad_json", error |-> "syntax"],       \* response.json() throws
     [kind |-> "json_null", error |-> "type"]}        \* body is the JSON value null
    \cup {[kind |-> "json", body |-> b] : b \in JsonValues(i)}

\* route.ts line 58
LooksLikeAgentConfig(m) ==
    IF m \in {JsonFalsy, JsonTrue} THEN FALSE
    ELSE m.name # "" \/ m.agent_id # ""

\* A candidate is accepted iff it answers 2xx, JSON, with name or agent_id.
Accepted(o) == o.kind = "json" /\ LooksLikeAgentConfig(o.body)

Or(a, b) == IF a # "" THEN a ELSE b

\* route.ts lines 78-83
\* (the spread of a primitive adds no field)
NormalizeMetadata(m) ==
    IF m = JsonTrue
    THEN [name |-> "Unknown Agent", version |-> "0.0.0"]
    ELSE [m EXCEPT !.name = Or(m.name, Or(m.agent_id, "Unknown Agent")),
                   !.version = Or(m.version, "0.0.0")]

RouteIdle ==
    /\ rpc = "idle"
    /\ req = "url"
    /\ cand = [i \in 1..NumCandidates |-> [kind |-> "http_error"]]
    /\ pos = 1
    /\ metadata = Null
    /\ fetchError = Null
    /\ probeLog = <<>>
    /\ response = Null

\* The inputs of one request: its body and the behaviour of the three endpoints.
InitRoute ==
    /\ rpc = "idle"
    /\ req \in {"bad_body", "no_url", "url"}
    /\ cand \in [1..NumCandidates -> UNION {Outcomes(i) : i \in 1..NumCandidates}]
    /\ \A i \in 1..NumCandidates : cand[i] \in Outcomes(i)
    /\ pos = 1
    /\ metadata = Null
    /\ fetchError = Null
    /\ probeLog = <<>>
    /\ response = Null

\* route.ts lines 4-34: parse the body, check url, set up the loop
RouteStart ==
    /\ rpc = "idle"
    /\ IF req = "bad_body"
       THEN /\ response' = [status |-> 500, error |-> "Internal server error"]
            /\ rpc' = "done"
       ELSE IF req = "no_url"
       THEN /\ response' = [status |-> 400, error |-> "URL is required"]
            /\ rpc' = "done"
       ELSE /\ rpc' = "loop"
            /\ UNCHANGED response
    /\ UNCHANGED <<req, cand, pos, metadata, fetchError, probeLog>>
    /\ UNCHANGED <<sessionVars, sidebarVars, issued, event, viewVars, funVars>>

\* route.ts lines 36-48: the loop head and the fetch of the next candidate
ProbeSend ==
    /\ rpc = "loop"
    /\ IF pos <= NumCandidates
       THEN /\ probeLog' = Append(probeLog, pathsToTry[pos])
            /\ rpc' = "await"
       ELSE /\ rpc' = "after"
            /\ UNCHANGED probeLog
    /\ UNCHANGED <<req, cand, pos, metadata, fetchError, response>>
    /\ UNCHANGED <<sessionVars, sidebarVars, issued, event, viewVars, funVars>>

\* ProbeReturn with the `break` of line 60 left out: the loop goes on to the
\* next candidate after an accepted one
ProbeReturnNoBreak ==
    /\ rpc = "await"
    /\ LET o == cand[pos] IN
       /\ metadata' = IF o.kind = "json" THEN o.body
                      ELSE IF o.kind = "json_null" THEN Null
                      ELSE metadata
       /\ fetchError' = IF o.kind \in {"throw", "bad_json", "json_null"}
                        THEN [message |-> o.error]
                        ELSE fetchError
       /\ rpc' = "loop" /\ pos' = pos + 1
    /\ UNCHANGED <<req, cand, probeLog, response>>
    /\ UNCHANGED <<sessionVars, sidebarVars, issued, event, viewVars, funVars>>

\* route.ts lines 50-67: the candidate's answer is handled
ProbeReturn ==
    /\ rpc = "await"
    /\ LET o == cand[pos] IN
       /\ metadata' = IF o.kind = "json" THEN o.body
                      ELSE IF o.kind = "json_null" THEN Null
                      ELSE metadata
       /\ fetchError' = IF o.kind \in {"throw", "bad_json", "json_null"}
                        THEN [message |-> o.error]
                        ELSE fetchError
       /\ IF o.kind = "json" /\ LooksLikeAgentConfig(o.body)
          THEN rpc' = "after" /\ UNCHANGED pos            \* break
          ELSE rpc' = "loop" /\ pos' = pos + 1
    /\ UNCHANGED <<req, cand, probeLog, response>>
    /\ UNCHANGED <<sessionVars, sidebarVars, issued, event, viewVars, funVars>>

\* route.ts lines 70-88
RouteFinish ==
    /\ rpc = "after"
    /\ response' = IF metadata \in {Null, JsonFalsy}        \* !metadata
                   THEN [status |-> 502,
                         error |-> IF fetchError = Null THEN "Unknown error"
                                   ELSE fetchError.message]
                   ELSE [status |-> 200, data |-> NormalizeMetadata(metadata)]
    /\ rpc' = "done"
    /\ UNCHANGED <<req, cand, pos, metadata, fetchError, probeLog>>
    /\ UNCHANGED <<sessionVars, sidebarVars, issued, event, viewVars, funVars>>

(***************************************************************************)
(*                     SHARED VALUES AND HELPERS                           *)
(***************************************************************************)

\* ---- bounds of the model ----
MaxMint == 2            \* ephemeral ids generated after the first one
MaxHistInflight == 2    \* history fetches awaiting their response
MaxIssued == 3          \* directory requests sent in one run
MaxNow == 1             \* clock readings are 1..MaxNow; server stamps are 0
MaxStream == 3          \* messages the stream hook holds
MaxSent == 2            \* calls of sendMessage in one run
MaxChats == 3           \* conversations in a list given to groupedChats
MaxSteps == 3           \* tool steps in an annotation given to the de-duplication

Times == 1..MaxNow

\* serviceUrl: empty, or the URL of a service
Urls == {"", "svc"}

\* A conversation id.  `debug` says whether the string starts with "debug-";
\* n tells ids of the same kind apart.  NoId is null.
NoId == [debug |-> FALSE, n |-> 0]

\* `debug-${Date.now()}-${Math.random().toString(36).substr(2, 9)}`: the k-th
\* id generated differs from all generated before it.
EphemeralId(k) == [debug |-> TRUE, n |-> k]

\* the ids the remote store knows
ServerIds == {[debug |-> FALSE, n |-> 1], [debug |-> FALSE, n |-> 2]}

\* every id a conversation of the model can have
AllIds == ServerIds \cup {EphemeralId(k) : k \in 0..MaxMint}

\* chatId.startsWith('debug-')
StartsWithDebug(id) == id.debug

\* no error message (null)
NoError == ""

\* no agent identity (null), and the identity a successful discovery returns
NoAgent == [name |-> "", version |-> ""]
AgentX == [name |-> "x", version |-> "1.0"]

\* ---- the message history the remote store holds ----
ToolStep(id, payload) == [toolCallId |-> id, payload |-> payload]

NoAnnotation == [present |-> FALSE, type |-> "", toolSteps |-> <<>>,
                 knowledge_sources |-> <<>>]

\* Message ids are unique to their conversation.
RawHistory(c) ==
    << [id |-> [chat |-> c.n, seq |-> 1], role |-> "user", content |-> "q",
        createdAt |-> 1, liked |-> FALSE, disliked |-> FALSE, hasComment |-> FALSE,
        annotation |-> NoAnnotation],
       [id |-> [chat |-> c.n, seq |-> 2], role |-> "assistant", content |-> "a",
        createdAt |-> 1, liked |-> TRUE, disliked |-> FALSE, hasComment |-> FALSE,
        annotation |-> [present |-> TRUE, type |-> "chart",
                        toolSteps |-> << ToolStep("t1", "p1"), ToolStep("t1", "p2"),
                                         ToolStep("t2", "p3") >>,
                        knowledge_sources |-> << "k1" >>]] >>

\* ---- response bodies ----
\* A JSON body with the fields the code looks at.
Envelope(ok, list) ==
    [isArray |-> FALSE, items |-> <<>>, success |-> ok, hasList |-> TRUE,
     list |-> list, hasData |-> FALSE, data |-> <<>>]
BareArray(list) ==
    [isArray |-> TRUE, items |-> list, success |-> FALSE, hasList |-> FALSE,
     list |-> <<>>, hasData |-> FALSE, data |-> <<>>]
DataWrapped(list) ==
    [isArray |-> FALSE, items |-> <<>>, success |-> FALSE, hasList |-> FALSE,
     list |-> <<>>, hasData |-> TRUE, data |-> list]
OtherObject ==
    [isArray |-> FALSE, items |-> <<>>, success |-> FALSE, hasList |-> FALSE,
     list |-> <<>>, hasData |-> FALSE, data |-> <<>>]

BodiesOf(list) ==
    {Envelope(TRUE, list), Envelope(FALSE, list), BareArray(list),
     DataWrapped(list), OtherObject}

\* ExtractRawMessages without the `data.data` branch of lines 165-166
ExtractRawMessagesNoData(data) ==
    IF data.success /\ data.hasList THEN data.list
    ELSE IF data.isArray THEN data.items
    ELSE <<>>

\* home-client.tsx lines 160-167 (`list` is data.messages)
ExtractRawMessages(data) ==
    IF data.success /\ data.hasList THEN data.list
    ELSE IF data.isArray THEN data.items
    ELSE IF data.hasData THEN data.data
    ELSE <<>>

RECURSIVE FindIndex(_, _, _)
\* arr.findIndex(s => s.toolCallId === id), 1-based; 0 when absent
FindIndex(arr, id, from) ==
    IF from > Len(arr) THEN 0
    ELSE IF arr[from].toolCallId = id THEN from
    ELSE FindIndex(arr, id, from + 1)

RECURSIVE FilterFirst(_, _)
\* home-client.tsx lines 175-178: keep the steps that are the first with their toolCallId
FilterFirst(arr, i) ==
    IF i > Len(arr) THEN <<>>
    ELSE IF FindIndex(arr, arr[i].toolCallId, 1) = i
         THEN <<arr[i]>> \o FilterFirst(arr, i + 1)
         ELSE FilterFirst(arr, i + 1)

\* UniqueToolSteps keeping the last record of each toolCallId
RECURSIVE KeepLast(_, _)
KeepLast(arr, i) ==
    IF i > Len(arr) THEN <<>>
    ELSE IF \E j \in (i + 1)..Len(arr) : arr[j].toolCallId = arr[i].toolCallId
         THEN KeepLast(arr, i + 1)
         ELSE <<arr[i]>> \o KeepLast(arr, i + 1)

UniqueToolStepsKeepLast(rawToolSteps) == KeepLast(rawToolSteps, 1)

\* home-client.tsx lines 174-178
UniqueToolSteps(rawToolSteps) == FilterFirst(rawToolSteps, 1)

\* home-client.tsx lines 171-203; t is the clock reading used when the record
\* has no createdAt (0).  An undefined toolSteps / knowledgeSources is <<>>.
TransformMessage(msg, t) ==
    [id |-> msg.id,
     role |-> msg.role,
     content |-> msg.content,
     createdAt |-> IF msg.createdAt # 0 THEN msg.createdAt ELSE t,
     liked |-> msg.liked,
     disliked |-> msg.disliked,
     hasComment |-> msg.hasComment,
     toolSteps |-> UniqueToolSteps(msg.annotation.toolSteps),
     knowledgeSources |-> msg.annotation.knowledge_sources,
     toolData |-> IF msg.annotation.present
                  THEN [type |-> IF msg.annotation.type # "" THEN msg.annotation.type
                                 ELSE "unknown",
                        state |-> "output-available",
                        output |-> msg.annotation]
                  ELSE Null]

TransformMessages(raw, t) == [i \in 1..Len(raw) |-> TransformMessage(raw[i], t)]

\* home-client.tsx lines 155-206: the hydrated history a 2xx body gives
Hydrate(data, t) == TransformMessages(ExtractRawMessages(data), t)

\* What the service may answer to GET /api/chat/{c}/messages.
HistoryResponses(c) ==
    {[kind |-> "ok", data |-> d] : d \in BodiesOf(RawHistory(c))}
    \cup {[kind |-> "http_error"], [kind |-> "throw"]}

\* ---- conversations ----
NoChat == [id |-> NoId, title |-> <<>>, created_at |-> 0, updated_at |-> 0]

\* The list the remote store holds; a null title is <<>>.
ServerChats ==
    << [id |-> [debug |-> FALSE, n |-> 1], title |-> <<112>>, created_at |-> 0,
        updated_at |-> 0],
       [id |-> [debug |-> FALSE, n |-> 2], title |-> <<>>, created_at |-> 0,
        updated_at |-> 0] >>

ChatIds(list) == {list[i].id : i \in 1..Len(list)}

\* ---- the ghost: which handler or continuation ran last, for the steps the
\* properties have to recognise; NoEvent for every other step.  id is the
\* conversation the handler was called for, or the session's conversation
\* when the handler started ----
Ev(op, id, ok) == [op |-> op, id |-> id, ok |-> ok]
NoEvent == Ev("none", NoId, TRUE)
\* the continuation of request rq ran: whether the request succeeded, the
\* clock reading and the title the service returned, and what rq had captured
Done(op, rq, ok, t, serverTitle) ==
    [op |-> op, id |-> rq.id, ok |-> ok, at |-> t, serverTitle |-> serverTitle,
     typed |-> rq.title, solo |-> rq.solo]

(***************************************************************************)
(*                 EFFECTS (run after a handler's state change)            *)
(***************************************************************************)

RECURSIVE SumOver(_, _)
SumOver(f, S) ==
    IF S = {} THEN 0
    ELSE LET x == CHOOSE y \in S : TRUE IN f[x] + SumOver(f, S \ {x})

TotalHistInflight == SumOver(histInflight, AllIds)

\* SkipFetch with the 'debug-' prefix test left out
SkipFetchNoPrefix(cid, url, p) == cid = NoId \/ url = "" \/ ~p

\* home-client.tsx line 130
SkipFetch(cid, url, p) == cid = NoId \/ StartsWithDebug(cid) \/ url = "" \/ ~p

\* home-client.tsx lines 127-153: the effect on [chatId, serviceUrl, authToken,
\* persist], up to its await.  cid, url, p are the values after the handler;
\* msgs and err are initialMessages and chatError as the handler left them.
FetchChatMessages(cid, url, p, msgs, err) ==
    IF SkipFetch(cid, url, p)
    THEN /\ initialMessages' = <<>>
         /\ chatError' = err
         /\ UNCHANGED <<isLoadingMessages, histInflight>>
    ELSE /\ TotalHistInflight < MaxHistInflight
         /\ histInflight' = [histInflight EXCEPT ![cid] = @ + 1]
         /\ isLoadingMessages' = TRUE
         /\ chatError' = NoError
         /\ initialMessages' = msgs

\* A directory request and the values its handler captured.  solo (ghost):
\* no other directory request has been in flight together with this one.
Request(kind, id, title, snapshot, target) ==
    [kind |-> kind, id |-> id, title |-> title, chats |-> snapshot,
     target |-> target, solo |-> TRUE]

ListRequest == Request("list", NoId, <<>>, <<>>, NoChat)

AddRequest(rs, r) ==
    Append([i \in 1..Len(rs) |-> [rs[i] EXCEPT !.solo = FALSE]],
           [r EXCEPT !.solo = (rs = <<>>)])

RemoveAt(rs, k) == [i \in 1..(Len(rs) - 1) |-> IF i < k THEN rs[i] ELSE rs[i + 1]]

\* part_000 lines 193-213: the effect on [isOpen, serviceUrl, authToken] of a
\* mounted sidebar, up to its await
FetchChats(open, url) ==
    IF ~open \/ url = ""
    THEN UNCHANGED <<loading, error, requests, issued>>
    ELSE /\ issued < MaxIssued
         /\ loading' = TRUE
         /\ error' = NoError
         /\ requests' = AddRequest(requests, ListRequest)
         /\ issued' = issued + 1

\* the sidebar's state when it is not mounted, and right after useState
SidebarFresh ==
    /\ chats = <<>>
    /\ loading = TRUE
    /\ error = NoError
    /\ editingChatId = NoId
    /\ editingTitle = <<>>
    /\ updatingChatId = NoId
    /\ deleteConfirm = NoChat
    /\ requests = <<>>

\* home-client.tsx lines 545-556: the sidebar is rendered iff persist.  p is
\* persist after the handler, open and url the props after the handler.
RenderSidebar(p, open, url) ==
    IF p /\ ~persist            \* mounts: fresh state, then the effect runs
    THEN /\ chats' = <<>>
         /\ loading' = TRUE
         /\ error' = NoError
         /\ editingChatId' = NoId
         /\ editingTitle' = <<>>
         /\ updatingChatId' = NoId
         /\ deleteConfirm' = NoChat
         /\ IF open /\ url # ""
            THEN /\ issued < MaxIssued
                 /\ requests' = <<ListRequest>>
                 /\ issued' = issued + 1
            ELSE /\ requests' = <<>>
                 /\ UNCHANGED issued
    ELSE IF ~p                  \* unmounted: its state is gone, and the
                                \* continuations of its requests set nothing
    THEN /\ chats' = <<>>
         /\ loading' = TRUE
         /\ error' = NoError
         /\ editingChatId' = NoId
         /\ editingTitle' = <<>>
         /\ updatingChatId' = NoId
         /\ deleteConfirm' = NoChat
         /\ requests' = <<>>
         /\ UNCHANGED issued
    ELSE /\ IF open # isChatSidebarOpen \/ url # serviceUrl
            THEN FetchChats(open, url)
            ELSE UNCHANGED <<loading, error, requests, issued>>
         /\ UNCHANGED <<chats, editingChatId, editingTitle, updatingChatId,
                        deleteConfirm>>

(***************************************************************************)
(*                    SESSION CONTROLLER (HomeClient)                      *)
(***************************************************************************)

\* home-client.tsx lines 43-99: the state after mount and the load of the
\* saved configuration (the service URL defaults to a non-empty URL)
InitSession ==
    /\ chatId = EphemeralId(0)
    /\ persist \in BOOLEAN
    /\ serviceUrl = "svc"
    /\ agentInfo = NoAgent
    /\ status = "disconnected"
    /\ discoveryError = NoError
    /\ chatError = NoError
    /\ isDiscovering = FALSE
    /\ initialMessages = <<>>
    /\ isLoadingMessages = FALSE
    /\ isChatSidebarOpen = FALSE
    /\ histInflight = [c \in AllIds |-> 0]
    /\ mints = 0

\* HandlePersistChange without the setChatId of line 122: the effect runs
\* again for the conversation that is open, with the new persist
HandlePersistChangeKeepId(newPersist) ==
    /\ persist' = newPersist
    /\ FetchChatMessages(chatId, serviceUrl, newPersist, <<>>, chatError)
    /\ RenderSidebar(newPersist, isChatSidebarOpen, serviceUrl)
    /\ event' = Ev("persistChange", chatId, TRUE)
    /\ UNCHANGED <<chatId, mints, serviceUrl, agentInfo, status, discoveryError,
                   isDiscovering, isChatSidebarOpen>>
    /\ UNCHANGED <<routeVars, viewVars, funVars>>

\* home-client.tsx lines 117-124, the onPersistChange of the configuration
\* panel (line 532), whose switch passes the opposite of the current value
HandlePersistChange(newPersist) ==
    /\ mints < MaxMint
    /\ persist' = newPersist
    /\ chatId' = EphemeralId(mints + 1)
    /\ mints' = mints + 1
    /\ FetchChatMessages(EphemeralId(mints + 1), serviceUrl, newPersist, <<>>, chatError)
    /\ RenderSidebar(newPersist, isChatSidebarOpen, serviceUrl)
    /\ event' = Ev("persistChange", chatId, TRUE)
    /\ UNCHANGED <<serviceUrl, agentInfo, status, discoveryError, isDiscovering,
                   isChatSidebarOpen>>
    /\ UNCHANGED <<routeVars, viewVars, funVars>>

\* home-client.tsx lines 258-262, called by a click on a listed conversation
\* (part_000 lines 81, 390-393; the list is rendered at lines 445-496)
HandleChatSelect(selectedChatId) ==
    /\ persist /\ isChatSidebarOpen
    /\ ~loading /\ error = NoError
    /\ selectedChatId \in ChatIds(chats)
    /\ chatId' = selectedChatId
    /\ IF selectedChatId # chatId
       THEN FetchChatMessages(selectedChatId, serviceUrl, persist, initialMessages,
                              chatError)
       ELSE UNCHANGED <<initialMessages, chatError, isLoadingMessages, histInflight>>
    /\ event' = NoEvent
    /\ UNCHANGED <<persist, serviceUrl, agentInfo, status, discoveryError,
                   isDiscovering, isChatSidebarOpen, mints>>
    /\ UNCHANGED <<sidebarVars, issued, routeVars, viewVars, funVars>>

\* home-client.tsx lines 265-279; the button is disabled while isDiscovering
\* or without a service URL (part_001 line 235)
HandleDiscover ==
    /\ ~isDiscovering /\ serviceUrl # ""
    /\ isDiscovering' = TRUE
    /\ discoveryError' = NoError
    /\ event' = NoEvent
    /\ UNCHANGED <<chatId, persist, serviceUrl, agentInfo, status, chatError,
                   initialMessages, isLoadingMessages, isChatSidebarOpen,
                   histInflight, mints>>
    /\ UNCHANGED <<sidebarVars, issued, routeVars, viewVars, funVars>>

\* home-client.tsx lines 281-299: the answer of /api/discover arrives
DiscoverResolve(ok) ==
    /\ isDiscovering
    /\ IF ok
       THEN /\ agentInfo' = AgentX
            /\ status' = "connected"
            /\ chatError' = NoError
            /\ UNCHANGED discoveryError
       ELSE /\ discoveryError' = "Failed to discover agent"
            /\ status' = "error"
            /\ agentInfo' = NoAgent
            /\ UNCHANGED chatError
    /\ isDiscovering' = FALSE
    /\ event' = Ev("discoverDone", chatId, ok)
    /\ UNCHANGED <<chatId, persist, serviceUrl, initialMessages, isLoadingMessages,
                   isChatSidebarOpen, histInflight, mints>>
    /\ UNCHANGED <<sidebarVars, issued, routeVars, viewVars, funVars>>

\* HandleClearConfig without the setAgentInfo(null) of line 370
HandleClearConfigKeepAgent ==
    /\ agentInfo # NoAgent
    /\ mints < MaxMint
    /\ status' = "disconnected"
    /\ discoveryError' = NoError
    /\ chatId' = EphemeralId(mints + 1)
    /\ mints' = mints + 1
    /\ FetchChatMessages(EphemeralId(mints + 1), serviceUrl, persist, initialMessages,
                         NoError)
    /\ event' = Ev("clearConfig", chatId, TRUE)
    /\ UNCHANGED <<agentInfo, persist, serviceUrl, isDiscovering, isChatSidebarOpen>>
    /\ UNCHANGED <<sidebarVars, issued, routeVars, viewVars, funVars>>

\* HandleClearConfig without the setChatId of line 374
HandleClearConfigKeepId ==
    /\ agentInfo # NoAgent
    /\ agentInfo' = NoAgent
    /\ status' = "disconnected"
    /\ discoveryError' = NoError
    /\ chatError' = NoError
    /\ event' = Ev("clearConfig", chatId, TRUE)
    /\ UNCHANGED <<chatId, mints, initialMessages, isLoadingMessages, histInflight>>
    /\ UNCHANGED <<persist, serviceUrl, isDiscovering, isChatSidebarOpen>>
    /\ UNCHANGED <<sidebarVars, issued, routeVars, viewVars, funVars>>

\* home-client.tsx lines 369-375, the onClick of the panel's Clear button,
\* which is rendered only while an agent identity is set (part_001 lines
\* 262-273)
HandleClearConfig ==
    /\ agentInfo # NoAgent
    /\ mints < MaxMint
    /\ agentInfo' = NoAgent
    /\ status' = "disconnected"
    /\ discoveryError' = NoError
    /\ chatId' = EphemeralId(mints + 1)
    /\ mints' = mints + 1
    /\ FetchChatMessages(EphemeralId(mints + 1), serviceUrl, persist, initialMessages,
                         NoError)
    /\ event' = Ev("clearConfig", chatId, TRUE)
    /\ UNCHANGED <<persist, serviceUrl, isDiscovering, isChatSidebarOpen>>
    /\ UNCHANGED <<sidebarVars, issued, routeVars, viewVars, funVars>>

\* HandleResetChat without the setChatId of line 380
HandleResetChatKeepId ==
    /\ chatError' = NoError
    /\ initialMessages' = <<>>
    /\ event' = Ev("newChat", chatId, TRUE)
    /\ UNCHANGED <<chatId, mints, isLoadingMessages, histInflight>>
    /\ UNCHANGED <<persist, serviceUrl, agentInfo, status, discoveryError,
                   isDiscovering, isChatSidebarOpen>>
    /\ UNCHANGED <<sidebarVars, issued, routeVars, viewVars, funVars>>

\* home-client.tsx lines 378-382, passed to the config panel as onResetChat
HandleResetChat ==
    /\ mints < MaxMint
    /\ chatId' = EphemeralId(mints + 1)
    /\ mints' = mints + 1
    /\ FetchChatMessages(EphemeralId(mints + 1), serviceUrl, persist, <<>>, NoError)
    /\ event' = Ev("newChat", chatId, TRUE)
    /\ UNCHANGED <<persist, serviceUrl, agentInfo, status, discoveryError,
                   isDiscovering, isChatSidebarOpen>>
    /\ UNCHANGED <<sidebarVars, issued, routeVars, viewVars, funVars>>

\* part_000 lines 424-433: the sidebar's "New chat" button calls onNewChat
\* (handleResetChat) and onClose
SidebarNewChat ==
    /\ persist /\ isChatSidebarOpen
    /\ mints < MaxMint
    /\ chatId' = EphemeralId(mints + 1)
    /\ mints' = mints + 1
    /\ FetchChatMessages(EphemeralId(mints + 1), serviceUrl, persist, <<>>, NoError)
    /\ isChatSidebarOpen' = FALSE
    /\ RenderSidebar(persist, FALSE, serviceUrl)
    /\ event' = Ev("newChat", chatId, TRUE)
    /\ UNCHANGED <<persist, serviceUrl, agentInfo, status, discoveryError,
                   isDiscovering>>
    /\ UNCHANGED <<routeVars, viewVars, funVars>>

\* home-client.tsx line 415: the history button, shown when persist and connected
ToggleSidebar ==
    /\ persist /\ status = "connected"
    /\ isChatSidebarOpen' = ~isChatSidebarOpen
    /\ RenderSidebar(persist, ~isChatSidebarOpen, serviceUrl)
    /\ event' = NoEvent
    /\ UNCHANGED <<chatId, persist, serviceUrl, agentInfo, status, discoveryError,
                   chatError, isDiscovering, initialMessages, isLoadingMessages,
                   histInflight, mints>>
    /\ UNCHANGED <<routeVars, viewVars, funVars>>

\* part_000 lines 434-439 and home-client.tsx line 548: the sidebar's close button
SidebarClose ==
    /\ persist /\ isChatSidebarOpen
    /\ isChatSidebarOpen' = FALSE
    /\ RenderSidebar(persist, FALSE, serviceUrl)
    /\ event' = NoEvent
    /\ UNCHANGED <<chatId, persist, serviceUrl, agentInfo, status, discoveryError,
                   chatError, isDiscovering, initialMessages, isLoadingMessages,
                   histInflight, mints>>
    /\ UNCHANGED <<routeVars, viewVars, funVars>>

\* home-client.tsx line 530 (onServiceUrlChange={setServiceUrl}): both effects
\* depend on serviceUrl
ServiceUrlChange(url) ==
    /\ url # serviceUrl
    /\ serviceUrl' = url
    /\ FetchChatMessages(chatId, url, persist, initialMessages, chatError)
    /\ RenderSidebar(persist, isChatSidebarOpen, url)
    /\ event' = NoEvent
    /\ UNCHANGED <<chatId, persist, agentInfo, status, discoveryError,
                   isDiscovering, isChatSidebarOpen, mints>>
    /\ UNCHANGED <<routeVars, viewVars, funVars>>

\* home-client.tsx line 531 (onAuthTokenChange={setAuthToken}): the token only
\* goes into request headers, but both effects depend on it and run again
AuthTokenChange ==
    /\ FetchChatMessages(chatId, serviceUrl, persist, initialMessages, chatError)
    /\ IF persist
       THEN /\ FetchChats(isChatSidebarOpen, serviceUrl)
            /\ UNCHANGED <<chats, editingChatId, editingTitle, updatingChatId,
                           deleteConfirm>>
       ELSE UNCHANGED <<sidebarVars, issued>>
    /\ event' = NoEvent
    /\ UNCHANGED <<chatId, persist, serviceUrl, agentInfo, status, discoveryError,
                   isDiscovering, isChatSidebarOpen, mints>>
    /\ UNCHANGED <<routeVars, viewVars, funVars>>

\* home-client.tsx line 450: the error banner's Dismiss
DismissChatError ==
    /\ chatError # NoError
    /\ chatError' = NoError
    /\ event' = NoEvent
    /\ UNCHANGED <<chatId, persist, serviceUrl, agentInfo, status, discoveryError,
                   isDiscovering, initialMessages, isLoadingMessages,
                   isChatSidebarOpen, histInflight, mints>>
    /\ UNCHANGED <<sidebarVars, issued, routeVars, viewVars, funVars>>

\* HistoryResolve whose failure branches also set the status to 'error', as
\* the stream's onError does
HistoryResolveTearDown(c, r, t) ==
    /\ histInflight[c] > 0
    /\ histInflight' = [histInflight EXCEPT ![c] = @ - 1]
    /\ IF r.kind = "ok"
       THEN /\ initialMessages' = TransformMessages(ExtractRawMessages(r.data), t)
            /\ UNCHANGED <<chatError, status>>
       ELSE /\ chatError' = IF r.kind = "http_error"
                            THEN "Failed to load chat messages"
                            ELSE "Failed to load messages"
            /\ initialMessages' = <<>>
            /\ status' = "error"
    /\ isLoadingMessages' = FALSE
    /\ event' = NoEvent
    /\ UNCHANGED <<chatId, persist, serviceUrl, agentInfo, discoveryError,
                   isDiscovering, isChatSidebarOpen, mints>>
    /\ UNCHANGED <<sidebarVars, issued, routeVars, viewVars, funVars>>

\* home-client.tsx lines 155-219: the response of the history fetch for
\* conversation c arrives and the rest of fetchChatMessages runs
HistoryResolve(c, r, t) ==
    /\ histInflight[c] > 0
    /\ histInflight' = [histInflight EXCEPT ![c] = @ - 1]
    /\ IF r.kind = "ok"
       THEN /\ initialMessages' = TransformMessages(ExtractRawMessages(r.data), t)
            /\ UNCHANGED chatError
       ELSE /\ chatError' = IF r.kind = "http_error"
                            THEN "Failed to load chat messages"
                            ELSE "Failed to load messages"
            /\ initialMessages' = <<>>
    /\ isLoadingMessages' = FALSE
    /\ event' = NoEvent
    /\ UNCHANGED <<chatId, persist, serviceUrl, agentInfo, status, discoveryError,
                   isDiscovering, isChatSidebarOpen, mints>>
    /\ UNCHANGED <<sidebarVars, issued, routeVars, viewVars, funVars>>

(***************************************************************************)
(*                 CONVERSATION DIRECTORY (ChatSidebar)                    *)
(***************************************************************************)

\* the code units String.prototype.trim removes, WhiteSpace and
\* LineTerminator of ECMAScript: tab, line feed, vertical tab, form feed,
\* carriage return, space, U+00A0, U+1680, U+2000 to U+200A, U+2028, U+2029,
\* U+202F, U+205F, U+3000 and U+FEFF
Whitespace ==
    {9, 10, 11, 12, 13, 32, 160, 5760} \cup (8192..8202)
        \cup {8232, 8233, 8239, 8287, 12288, 65279}

RECURSIVE TrimStart(_)
TrimStart(s) ==
    IF s # <<>> /\ Head(s) \in Whitespace THEN TrimStart(Tail(s)) ELSE s

RECURSIVE TrimEnd(_)
TrimEnd(s) ==
    IF s # <<>> /\ s[Len(s)] \in Whitespace
    THEN TrimEnd(SubSeq(s, 1, Len(s) - 1))
    ELSE s

\* String.prototype.trim
Trim(s) == TrimEnd(TrimStart(s))

\* 'Untitled Chat'
UntitledChat == <<85, 110, 116, 105, 116, 108, 101, 100, 32, 67, 104, 97, 116>>

\* a || b on strings
OrTitle(a, b) == IF a # <<>> THEN a ELSE b

\* what the operator may type into the title input: nothing, "\r\u3000"
\* (blank), and "\u00a0\u00e9\u200b\r", of which trim() keeps "\u00e9\u200b"
\* (a zero width space is not white space)
TypedTitles == { <<>>, <<13, 12288>>, <<160, 233, 8203, 13>> }

\* what the service may answer to GET /api/chats/list
ListResponses ==
    {[kind |-> "ok", data |-> d] :
        d \in BodiesOf(ServerChats) \cup {BareArray(SubSeq(ServerChats, 2, 2))}}
    \cup {[kind |-> "http_error"], [kind |-> "throw"]}

\* what the service may answer to PATCH /api/chats/{id}: a 2xx body
\* {success, chat: {title}} (title <<>> when absent), a non-2xx, or no answer
RenameResponses ==
    {[kind |-> "ok", success |-> TRUE, title |-> <<>>],
     [kind |-> "ok", success |-> TRUE, title |-> <<115>>],
     [kind |-> "ok", success |-> FALSE, title |-> <<>>],
     [kind |-> "http_error", success |-> FALSE, title |-> <<>>],
     [kind |-> "throw", success |-> FALSE, title |-> <<>>]}

\* what the service may answer to DELETE /api/chat/{id}/delete
DeleteResponses == {[kind |-> "ok"], [kind |-> "http_error"], [kind |-> "throw"]}

\* part_000 lines 445-496: the conversation items are rendered
ListShown ==
    /\ persist /\ isChatSidebarOpen
    /\ ~loading /\ error = NoError /\ chats # <<>>

\* part_000 lines 222-233 (`list` is data.chats)
ExtractChats(data) ==
    IF data.success /\ data.hasList THEN data.list
    ELSE IF data.isArray THEN data.items
    ELSE IF data.hasData THEN data.data
    ELSE <<>>

\* part_000 lines 215-244: the response of a list request arrives
ListResolve(k, r) ==
    /\ k \in 1..Len(requests) /\ requests[k].kind = "list"
    /\ requests' = RemoveAt(requests, k)
    /\ IF r.kind = "ok"
       THEN chats' = ExtractChats(r.data) /\ UNCHANGED error
       ELSE /\ error' = IF r.kind = "http_error" THEN "Failed to load chats"
                        ELSE "Connection error"
            /\ UNCHANGED chats
    /\ loading' = FALSE
    /\ event' = NoEvent
    /\ UNCHANGED <<editingChatId, editingTitle, updatingChatId, deleteConfirm>>
    /\ UNCHANGED <<sessionVars, issued, routeVars, viewVars, funVars>>

\* part_000 lines 465-474: "Try again" in the error view
TryAgain ==
    /\ persist /\ isChatSidebarOpen
    /\ ~loading /\ error # NoError
    /\ error' = NoError
    /\ loading' = TRUE
    /\ event' = NoEvent
    /\ UNCHANGED <<chats, editingChatId, editingTitle, updatingChatId,
                   deleteConfirm, requests>>
    /\ UNCHANGED <<sessionVars, issued, routeVars, viewVars, funVars>>

\* part_000 lines 291-295, from the item's menu (lines 118-168), which is
\* rendered when the item is not being edited
HandleEditStart(i) ==
    /\ ListShown
    /\ i \in 1..Len(chats) /\ editingChatId # chats[i].id
    /\ editingChatId' = chats[i].id
    /\ editingTitle' = OrTitle(chats[i].title, UntitledChat)
    /\ event' = NoEvent
    /\ UNCHANGED <<chats, loading, error, updatingChatId, deleteConfirm, requests>>
    /\ UNCHANGED <<sessionVars, issued, routeVars, viewVars, funVars>>

\* part_000 lines 85-100: typing into the input of the item being edited; the
\* input is disabled while that item is updating
SetEditingTitle(title) ==
    /\ ListShown
    /\ editingChatId \in ChatIds(chats) /\ updatingChatId # editingChatId
    /\ title # editingTitle
    /\ editingTitle' = title
    /\ event' = NoEvent
    /\ UNCHANGED <<chats, loading, error, editingChatId, updatingChatId,
                   deleteConfirm, requests>>
    /\ UNCHANGED <<sessionVars, issued, routeVars, viewVars, funVars>>

\* HandleEditSave testing `!editingTitle` instead of `!editingTitle.trim()`
HandleEditSaveNoTrim(chatIdArg) ==
    /\ ListShown
    /\ chatIdArg = editingChatId /\ chatIdArg \in ChatIds(chats)
    /\ updatingChatId # chatIdArg
    /\ IF editingTitle = <<>>
       THEN /\ UNCHANGED <<updatingChatId, requests, issued>>
            /\ event' = Ev("editSave", chatIdArg, FALSE)
       ELSE /\ issued < MaxIssued
            /\ issued' = issued + 1
            /\ updatingChatId' = chatIdArg
            /\ requests' = AddRequest(requests,
                   Request("rename", chatIdArg, editingTitle, chats, NoChat))
            /\ event' = Ev("editSave", chatIdArg, TRUE)
    /\ UNCHANGED <<chats, loading, error, editingChatId, editingTitle, deleteConfirm>>
    /\ UNCHANGED <<sessionVars, routeVars, viewVars, funVars>>

\* part_000 lines 297-313: Enter in the input or the check button of the item
\* being edited, both disabled while that item is updating
HandleEditSave(chatIdArg) ==
    /\ ListShown
    /\ chatIdArg = editingChatId /\ chatIdArg \in ChatIds(chats)
    /\ updatingChatId # chatIdArg
    /\ IF Trim(editingTitle) = <<>>
       THEN /\ UNCHANGED <<updatingChatId, requests, issued>>
            /\ event' = Ev("editSave", chatIdArg, FALSE)
       ELSE /\ issued < MaxIssued
            /\ issued' = issued + 1
            /\ updatingChatId' = chatIdArg
            /\ requests' = AddRequest(requests,
                   Request("rename", chatIdArg, editingTitle, chats, NoChat))
            /\ event' = Ev("editSave", chatIdArg, TRUE)
    /\ UNCHANGED <<chats, loading, error, editingChatId, editingTitle, deleteConfirm>>
    /\ UNCHANGED <<sessionVars, routeVars, viewVars, funVars>>

\* ApplyRename leaving updated_at as it was
ApplyRenameKeepStamp(snapshot, id, title, t) ==
    [i \in 1..Len(snapshot) |->
        IF snapshot[i].id = id
        THEN [snapshot[i] EXCEPT !.title = title]
        ELSE snapshot[i]]

\* ApplyRename adding the renamed entry at the end instead of replacing it
ApplyRenameAppend(snapshot, id, title, t) ==
    LET hit == {i \in 1..Len(snapshot) : snapshot[i].id = id}
    IN  IF hit = {} THEN snapshot
        ELSE Append(snapshot,
                    [snapshot[CHOOSE i \in hit : TRUE] EXCEPT !.title = title,
                                                               !.updated_at = t])

\* part_000 lines 319-323, on the chats the handler captured
ApplyRename(snapshot, id, title, t) ==
    [i \in 1..Len(snapshot) |->
        IF snapshot[i].id = id
        THEN [snapshot[i] EXCEPT !.title = title, !.updated_at = t]
        ELSE snapshot[i]]

\* RenameResolve testing `response.ok` only, not `data.success`
RenameResolveAnyOk(k, r, t) ==
    /\ k \in 1..Len(requests) /\ requests[k].kind = "rename"
    /\ requests' = RemoveAt(requests, k)
    /\ IF r.kind = "ok"
       THEN /\ chats' = ApplyRename(requests[k].chats, requests[k].id,
                                    OrTitle(r.title, Trim(requests[k].title)), t)
            /\ editingChatId' = NoId
            /\ editingTitle' = <<>>
       ELSE UNCHANGED <<chats, editingChatId, editingTitle>>
    /\ updatingChatId' = NoId
    /\ event' = Done("renameDone", requests[k], r.kind = "ok" /\ r.success, t,
                      r.title)
    /\ UNCHANGED <<loading, error, deleteConfirm>>
    /\ UNCHANGED <<sessionVars, issued, routeVars, viewVars, funVars>>

\* part_000 lines 315-333: the response of a rename request arrives; t is
\* the clock reading of `new Date()`
RenameResolve(k, r, t) ==
    /\ k \in 1..Len(requests) /\ requests[k].kind = "rename"
    /\ requests' = RemoveAt(requests, k)
    /\ IF r.kind = "ok" /\ r.success
       THEN /\ chats' = ApplyRename(requests[k].chats, requests[k].id,
                                    OrTitle(r.title, Trim(requests[k].title)), t)
            /\ editingChatId' = NoId
            /\ editingTitle' = <<>>
       ELSE UNCHANGED <<chats, editingChatId, editingTitle>>
    /\ updatingChatId' = NoId
    /\ event' = Done("renameDone", requests[k], r.kind = "ok" /\ r.success, t,
                      r.title)
    /\ UNCHANGED <<loading, error, deleteConfirm>>
    /\ UNCHANGED <<sessionVars, issued, routeVars, viewVars, funVars>>

\* part_000 lines 336-340: the X button of the item being edited, or Escape
HandleEditCancel ==
    /\ ListShown
    /\ editingChatId \in ChatIds(chats)
    /\ editingChatId' = NoId
    /\ editingTitle' = <<>>
    /\ event' = NoEvent
    /\ UNCHANGED <<chats, loading, error, updatingChatId, deleteConfirm, requests>>
    /\ UNCHANGED <<sessionVars, issued, routeVars, viewVars, funVars>>

\* part_000 lines 343-346, from the item's menu
HandleDeleteStart(i) ==
    /\ ListShown
    /\ i \in 1..Len(chats) /\ editingChatId # chats[i].id
    /\ deleteConfirm # chats[i]
    /\ deleteConfirm' = chats[i]
    /\ event' = NoEvent
    /\ UNCHANGED <<chats, loading, error, editingChatId, editingTitle,
                   updatingChatId, requests>>
    /\ UNCHANGED <<sessionVars, issued, routeVars, viewVars, funVars>>

\* part_000 lines 513-518: Cancel in the confirmation dialog
DeleteCancel ==
    /\ persist /\ deleteConfirm # NoChat
    /\ deleteConfirm' = NoChat
    /\ event' = NoEvent
    /\ UNCHANGED <<chats, loading, error, editingChatId, editingTitle,
                   updatingChatId, requests>>
    /\ UNCHANGED <<sessionVars, issued, routeVars, viewVars, funVars>>

\* part_000 lines 348-362: Delete in the confirmation dialog
HandleDeleteConfirm ==
    /\ persist /\ deleteConfirm # NoChat
    /\ issued < MaxIssued
    /\ issued' = issued + 1
    /\ requests' = AddRequest(requests,
           Request("delete", deleteConfirm.id, <<>>, chats, deleteConfirm))
    /\ event' = NoEvent
    /\ UNCHANGED <<chats, loading, error, editingChatId, editingTitle,
                   updatingChatId, deleteConfirm>>
    /\ UNCHANGED <<sessionVars, routeVars, viewVars, funVars>>

\* chats.filter((chat) => chat.id !== id)
RECURSIVE FilterOut(_, _)
FilterOut(list, id) ==
    IF list = <<>> THEN <<>>
    ELSE IF Head(list).id # id THEN <<Head(list)>> \o FilterOut(Tail(list), id)
    ELSE FilterOut(Tail(list), id)

\* part_000 lines 364-370: the response of a delete request arrives
DeleteResolve(k, r) ==
    /\ k \in 1..Len(requests) /\ requests[k].kind = "delete"
    /\ requests' = RemoveAt(requests, k)
    /\ IF r.kind = "ok"
       THEN /\ chats' = FilterOut(requests[k].chats, requests[k].target.id)
            /\ deleteConfirm' = NoChat
       ELSE UNCHANGED <<chats, deleteConfirm>>
    /\ event' = Done("deleteDone", requests[k], r.kind = "ok", 0, <<>>)
    /\ UNCHANGED <<loading, error, editingChatId, editingTitle, updatingChatId>>
    /\ UNCHANGED <<sessionVars, issued, routeVars, viewVars, funVars>>

(***************************************************************************)
(*                 CHAT VIEW (HomeClient and useChatStream)                *)
(***************************************************************************)

\* A message the stream hook holds (types/agent.ts ChatMessage: id, role,
\* content); ids of the stream are told apart from ids of the store by chat 0.
StreamMessage(k, role, content) ==
    [id |-> [chat |-> 0, seq |-> k], role |-> role, content |-> content]

\* The messages the hook may add: two user messages, an assistant message,
\* and an assistant message carrying the id of the first user message.
StreamPool ==
    {StreamMessage(1, "user", "q1"), StreamMessage(2, "user", "q2"),
     StreamMessage(3, "assistant", "a3"), StreamMessage(1, "assistant", "a1")}

\* an id no message carries
UnknownMessageId == [chat |-> 0, seq |-> 0]

\* messages.concat: what the view would be if both sequences were shown
MessagesConcat == initialMessages \o streamMessages

\* home-client.tsx line 255
Messages == IF Len(streamMessages) > 0 THEN streamMessages ELSE initialMessages

\* messages.findIndex(m => m.id === messageId), 1-based; 0 when absent
RECURSIVE FindMessageIndex(_, _, _)
FindMessageIndex(msgs, messageId, from) ==
    IF from > Len(msgs) THEN 0
    ELSE IF msgs[from].id = messageId THEN from
    ELSE FindMessageIndex(msgs, messageId, from + 1)

\* msgs.slice(0, n).reverse().find(m => m.role === 'user'): the index of the
\* last user message among the first n, 0 when there is none
RECURSIVE LastUserIndex(_, _)
LastUserIndex(msgs, n) ==
    IF n = 0 THEN 0
    ELSE IF msgs[n].role = "user" THEN n
    ELSE LastUserIndex(msgs, n - 1)

\* what lines 319-322 would give without the reverse(): the index of the
\* FIRST user message among the first n (used by HandleRetryMessageFirstUser
\* only; the code takes the last, LastUserIndex)
RECURSIVE FirstUserIndex(_, _, _)
FirstUserIndex(msgs, n, from) ==
    IF from > n THEN 0
    ELSE IF msgs[from].role = "user" THEN from
    ELSE FirstUserIndex(msgs, n, from + 1)

\* the hook adds a message to its sequence (the library is not part of the
\* repository: any message of the pool, at any time)
StreamAppend(m) ==
    /\ Len(streamMessages) < MaxStream
    /\ streamMessages' = Append(streamMessages, m)
    /\ event' = NoEvent
    /\ UNCHANGED sent
    /\ UNCHANGED <<sessionVars, sidebarVars, issued, routeVars, funVars>>

\* the hook empties its sequence
StreamClear ==
    /\ streamMessages # <<>>
    /\ streamMessages' = <<>>
    /\ event' = NoEvent
    /\ UNCHANGED sent
    /\ UNCHANGED <<sessionVars, sidebarVars, issued, routeVars, funVars>>

\* home-client.tsx lines 247-250: the hook reports the failure of a stream
\* that a sendMessage started
StreamError ==
    /\ sent # <<>>
    /\ chatError' = "Stream error"
    /\ status' = "error"
    /\ event' = Ev("streamError", chatId, TRUE)
    /\ UNCHANGED <<chatId, persist, serviceUrl, agentInfo, discoveryError,
                   isDiscovering, initialMessages, isLoadingMessages,
                   isChatSidebarOpen, histInflight, mints>>
    /\ UNCHANGED <<sidebarVars, issued, routeVars, viewVars, funVars>>

\* home-client.tsx lines 303-312, the onSendMessage of the ChatContainer,
\* which is rendered when the status is connected (lines 468-481)
HandleSendMessage(content) ==
    /\ status = "connected"
    /\ Len(sent) < MaxSent
    /\ chatError' = NoError
    /\ sent' = Append(sent, content)
    /\ event' = NoEvent
    /\ UNCHANGED streamMessages
    /\ UNCHANGED <<chatId, persist, serviceUrl, agentInfo, status, discoveryError,
                   isDiscovering, initialMessages, isLoadingMessages,
                   isChatSidebarOpen, histInflight, mints>>
    /\ UNCHANGED <<sidebarVars, issued, routeVars, funVars>>

\* HandleRetryMessage taking the first user message before the retried one
\* (find without reverse)
HandleRetryMessageFirstUser(messageId) ==
    /\ status = "connected"
    /\ Len(sent) < MaxSent
    /\ LET messageIndex == FindMessageIndex(Messages, messageId, 1)
           user == IF messageIndex > 1
                   THEN FirstUserIndex(Messages, messageIndex - 1, 1) ELSE 0
       IN IF user > 0
          THEN /\ chatError' = NoError
               /\ sent' = Append(sent, Messages[user].content)
               /\ event' = Ev("retry", messageId, TRUE)
          ELSE /\ UNCHANGED <<chatError, sent>>
               /\ event' = Ev("retry", messageId, FALSE)
    /\ UNCHANGED streamMessages
    /\ UNCHANGED <<chatId, persist, serviceUrl, agentInfo, status, discoveryError,
                   isDiscovering, initialMessages, isLoadingMessages,
                   isChatSidebarOpen, histInflight, mints>>
    /\ UNCHANGED <<sidebarVars, issued, routeVars, funVars>>

\* home-client.tsx lines 314-330, the onRetryMessage of the ChatContainer
HandleRetryMessage(messageId) ==
    /\ status = "connected"
    /\ Len(sent) < MaxSent
    /\ LET messageIndex == FindMessageIndex(Messages, messageId, 1)
           user == IF messageIndex > 1
                   THEN LastUserIndex(Messages, messageIndex - 1) ELSE 0
       IN IF user > 0
          THEN /\ chatError' = NoError
               /\ sent' = Append(sent, Messages[user].content)
               /\ event' = Ev("retry", messageId, TRUE)
          ELSE /\ UNCHANGED <<chatError, sent>>
               /\ event' = Ev("retry", messageId, FALSE)
    /\ UNCHANGED streamMessages
    /\ UNCHANGED <<chatId, persist, serviceUrl, agentInfo, status, discoveryError,
                   isDiscovering, initialMessages, isLoadingMessages,
                   isChatSidebarOpen, histInflight, mints>>
    /\ UNCHANGED <<sidebarVars, issued, routeVars, funVars>>

(***************************************************************************)
(*        GROUPING OF THE DIRECTORY (groupedChats) AND DE-DUPLICATION      *)
(***************************************************************************)

\* Timestamps are hours of local time; 0 is an absent (empty) timestamp.
\* 24 * 60 * 60 * 1000 ms, in hours
DayHours == 24

\* the clock readings `new Date()` may return: days 40 onwards, at
\* 00:00, 01:00, 02:00, 13:00 and 23:00 local time
Nows == {40 * DayHours + h : h \in {0, 1, 2, 13, 23}}

\* new Date(now.getFullYear(), now.getMonth(), now.getDate()): local midnight
Today(now) == now - (now % DayHours)

\* new Date(chat.updated_at || chat.created_at)
ChatDate(chat) == IF chat.updated_at # 0 THEN chat.updated_at ELSE chat.created_at

\* BucketOf with > in place of >=
BucketOfStrict(chatDate, now) ==
    IF chatDate > Today(now) THEN "today"
    ELSE IF chatDate > Today(now) - DayHours THEN "yesterday"
    ELSE IF chatDate > Today(now) - 7 * DayHours THEN "previous7Days"
    ELSE "older"

\* part_000 lines 264-276
BucketOf(chatDate, now) ==
    IF chatDate >= Today(now) THEN "today"
    ELSE IF chatDate >= Today(now) - DayHours THEN "yesterday"
    ELSE IF chatDate >= Today(now) - 7 * DayHours THEN "previous7Days"
    ELSE "older"

\* the conversations pushed to one group, in the order of the list
RECURSIVE GroupOf(_, _, _)
GroupOf(list, bucket, now) ==
    IF list = <<>> THEN <<>>
    ELSE IF BucketOf(ChatDate(Head(list)), now) = bucket
         THEN <<Head(list)>> \o GroupOf(Tail(list), bucket, now)
         ELSE GroupOf(Tail(list), bucket, now)

\* one element put into a group sorted by the comparator of lines 281-284
\* (b - a): after every element that does not compare greater than it
RECURSIVE InsertSorted(_, _)
InsertSorted(sorted, chat) ==
    IF sorted = <<>> THEN <<chat>>
    ELSE IF ChatDate(chat) > ChatDate(Head(sorted))
         THEN <<chat>> \o sorted
         ELSE <<Head(sorted)>> \o InsertSorted(Tail(sorted), chat)

\* SortGroup leaving the group in the order of the list
SortGroupUnsorted(group) == group

\* part_000 lines 279-285: Array.prototype.sort (stable), most recent first
RECURSIVE SortGroup(_)
SortGroup(group) ==
    IF group = <<>> THEN <<>>
    ELSE InsertSorted(SortGroup(SubSeq(group, 1, Len(group) - 1)), group[Len(group)])

\* part_000 lines 251-288
GroupedChats(list, now) ==
    [today |-> SortGroup(GroupOf(list, "today", now)),
     yesterday |-> SortGroup(GroupOf(list, "yesterday", now)),
     previous7Days |-> SortGroup(GroupOf(list, "previous7Days", now)),
     older |-> SortGroup(GroupOf(list, "older", now))]

\* the i-th conversation of a fetched list
ChatAt(i, created, updated) ==
    [id |-> [debug |-> FALSE, n |-> i], title |-> <<>>, created_at |-> created,
     updated_at |-> updated]

\* conversations updated now, 2 hours, 26 hours, 5 days and 30 days ago
FiveChats(now) ==
    << ChatAt(1, now - 30 * DayHours, now),
       ChatAt(2, now - 30 * DayHours, now - 2),
       ChatAt(3, now - 30 * DayHours, now - 26),
       ChatAt(4, now - 30 * DayHours, now - 5 * DayHours),
       ChatAt(5, now - 30 * DayHours, now - 30 * DayHours) >>

\* the lists groupedChats is applied to: up to MaxChats conversations with
\* distinct ids, updated at one of those times or without updated_at, and
\* the list of the five
ChatLists(now) ==
    LET updates == {0, now, now - 2, now - 26, now - 5 * DayHours, now - 30 * DayHours}
        creates == {now - 2, now - 30 * DayHours}
    IN  UNION {{[i \in 1..n |-> ChatAt(i, f[i][1], f[i][2])] :
                    f \in [1..n -> creates \X updates]} : n \in 0..MaxChats}
        \cup {FiveChats(now)}

\* the raw toolSteps the de-duplication is applied to
ToolStepLists ==
    LET steps == {ToolStep(id, payload) : id \in {"t1", "t2"}, payload \in {"p1", "p2"}}
    IN  UNION {[1..n -> steps] : n \in 0..MaxSteps}

\* the message lists a history response may carry: up to two records of a
\* stored conversation, with and without createdAt
MessageLists ==
    LET records == UNION {{RawHistory(c)[1], RawHistory(c)[2],
                           [RawHistory(c)[1] EXCEPT !.createdAt = 0]} : c \in ServerIds}
    IN  UNION {[1..n -> records] : n \in 0..2}

\* the success branch of fetchChatMessages runs on the three shapes of body
\* carrying the drawn message list, with the drawn value of `success`
ApplyHydrate ==
    /\ fn = "hydrate" /\ result = Null
    /\ result' = [value |->
                     [envelope |-> Hydrate(Envelope(arg.success, arg.messages), arg.now),
                      array |-> Hydrate(BareArray(arg.messages), arg.now),
                      data |-> Hydrate(DataWrapped(arg.messages), arg.now)]]
    /\ UNCHANGED <<fn, arg>>
    /\ UNCHANGED <<sessionVars, sidebarVars, issued, event, routeVars, viewVars>>

\* useMemo of groupedChats runs on the drawn list at the drawn time
ApplyGroupedChats ==
    /\ fn = "groupedChats" /\ result = Null
    /\ result' = [value |-> GroupedChats(arg.chats, arg.now)]
    /\ UNCHANGED <<fn, arg>>
    /\ UNCHANGED <<sessionVars, sidebarVars, issued, event, routeVars, viewVars>>

\* the de-duplication of home-client.tsx lines 174-178 runs on the drawn steps
ApplyUniqueToolSteps ==
    /\ fn = "uniqueToolSteps" /\ result = Null
    /\ result' = [value |-> UniqueToolSteps(arg.rawToolSteps)]
    /\ UNCHANGED <<fn, arg>>
    /\ UNCHANGED <<sessionVars, sidebarVars, issued, event, routeVars, viewVars>>

(***************************************************************************)
(*                  PARTS THAT TAKE NO STEP IN A SPECIFICATION             *)
(***************************************************************************)

\* the hook holds no message and sendMessage has not been called
ViewIdle ==
    /\ streamMessages = <<>>
    /\ sent = <<>>

\* no function is being applied
FunIdle ==
    /\ fn = "none"
    /\ arg = Null
    /\ result = Null

(***************************************************************************)
(*                           SPECIFICATIONS                                *)
(***************************************************************************)

\* ---- the session controller, with the directory listing only ----
Init ==
    /\ InitSession
    /\ SidebarFresh
    /\ RouteIdle
    /\ issued = 0
    /\ event = NoEvent
    /\ ViewIdle
    /\ FunIdle

Next ==
    \/ HandlePersistChange(~persist)          \* the persistence switch
    \/ \E c \in ServerIds : HandleChatSelect(c)
    \/ HandleDiscover
    \/ \E ok \in BOOLEAN : DiscoverResolve(ok)
    \/ HandleClearConfig
    \/ HandleResetChat
    \/ SidebarNewChat
    \/ ToggleSidebar
    \/ SidebarClose
    \/ \E u \in Urls : ServiceUrlChange(u)
    \/ AuthTokenChange
    \/ DismissChatError
    \/ \E c \in AllIds : \E r \in HistoryResponses(c) : \E t \in Times :
           HistoryResolve(c, r, t)
    \/ \E k \in 1..MaxIssued : \E r \in ListResponses : ListResolve(k, r)
    \/ TryAgain

Spec == Init /\ [][Next]_vars

\* ---- the directory's own operations, in a connected session with
\* persistence on, for each conversation the session may have open ----
InitDirectory ==
    /\ chatId \in ServerIds \cup {EphemeralId(0)}
    /\ persist = TRUE
    /\ serviceUrl = "svc"
    /\ agentInfo = AgentX
    /\ status = "connected"
    /\ discoveryError = NoError
    /\ chatError = NoError
    /\ isDiscovering = FALSE
    /\ initialMessages = <<>>
    /\ isLoadingMessages = FALSE
    /\ isChatSidebarOpen = FALSE
    /\ histInflight = [c \in AllIds |-> 0]
    /\ mints = 0
    /\ SidebarFresh
    /\ RouteIdle
    /\ issued = 0
    /\ event = NoEvent
    /\ ViewIdle
    /\ FunIdle

NextDirectory ==
    \/ ToggleSidebar
    \/ SidebarClose
    \/ SidebarNewChat
    \/ \E k \in 1..MaxIssued : \E r \in ListResponses : ListResolve(k, r)
    \/ TryAgain
    \/ \E i \in 1..Len(chats) : HandleEditStart(i)
    \/ \E title \in TypedTitles : SetEditingTitle(title)
    \/ \E c \in ServerIds : HandleEditSave(c)
    \/ \E k \in 1..MaxIssued : \E r \in RenameResponses : \E t \in Times :
           RenameResolve(k, r, t)
    \/ HandleEditCancel
    \/ \E i \in 1..Len(chats) : HandleDeleteStart(i)
    \/ DeleteCancel
    \/ HandleDeleteConfirm
    \/ \E k \in 1..MaxIssued : \E r \in DeleteResponses : DeleteResolve(k, r)

SpecDirectory == InitDirectory /\ [][NextDirectory]_vars

\* ---- one request to the discovery route ----
InitDiscover ==
    /\ InitRoute
    /\ InitSession /\ persist = FALSE
    /\ SidebarFresh
    /\ issued = 0
    /\ event = NoEvent
    /\ ViewIdle
    /\ FunIdle

NextDiscover ==
    \/ RouteStart
    \/ ProbeSend
    \/ ProbeReturn
    \/ RouteFinish

SpecDiscover == InitDiscover /\ [][NextDiscover]_vars

\* ---- the chat view of a connected session with a stored conversation
\* open, its history hydrated or empty ----
InitView ==
    /\ chatId \in ServerIds
    /\ persist = TRUE
    /\ serviceUrl = "svc"
    /\ agentInfo = AgentX
    /\ status = "connected"
    /\ discoveryError = NoError
    /\ chatError = NoError
    /\ isDiscovering = FALSE
    /\ initialMessages \in {<<>>, TransformMessages(RawHistory(chatId), 1)}
    /\ isLoadingMessages = FALSE
    /\ isChatSidebarOpen = FALSE
    /\ histInflight = [c \in AllIds |-> 0]
    /\ mints = 0
    /\ SidebarFresh
    /\ RouteIdle
    /\ issued = 0
    /\ event = NoEvent
    /\ ViewIdle
    /\ FunIdle

NextView ==
    \/ \E m \in StreamPool : StreamAppend(m)
    \/ StreamClear
    \/ StreamError
    \/ HandleDiscover
    \/ \E ok \in BOOLEAN : DiscoverResolve(ok)
    \/ \E content \in {"n"} : HandleSendMessage(content)
    \/ \E i \in 1..Len(Messages) : HandleRetryMessage(Messages[i].id)
    \/ HandleRetryMessage(UnknownMessageId)
    \/ DismissChatError

SpecView == InitView /\ [][NextView]_vars


\* ---- the pure functions, each applied to an input drawn at the start ----
InitFunctions ==
    /\ InitSession /\ persist = FALSE
    /\ SidebarFresh
    /\ RouteIdle
    /\ issued = 0
    /\ event = NoEvent
    /\ ViewIdle
    /\ \/ /\ fn = "groupedChats"
          /\ \E now \in Nows : \E list \in ChatLists(now) :
                arg = [chats |-> list, now |-> now]
       \/ /\ fn = "uniqueToolSteps"
          /\ \E raw \in ToolStepLists : arg = [rawToolSteps |-> raw]
       \/ /\ fn = "hydrate"
          /\ \E list \in MessageLists : \E ok \in BOOLEAN : \E t \in Times :
                arg = [messages |-> list, success |-> ok, now |-> t]
    /\ result = Null

NextFunctions ==
    \/ ApplyGroupedChats
    \/ ApplyUniqueToolSteps
    \/ ApplyHydrate

SpecFunctions == InitFunctions /\ [][NextFunctions]_vars

\* ---- the session controller together with the stream's sends and errors ----
NextSession ==
    \/ HandleDiscover
    \/ \E ok \in BOOLEAN : DiscoverResolve(ok)
    \/ HandleClearConfig
    \/ HandleResetChat
    \/ HandlePersistChange(~persist)
    \/ ToggleSidebar
    \/ \E k \in 1..MaxIssued : \E r \in ListResponses : ListResolve(k, r)
    \/ \E c \in ServerIds : HandleChatSelect(c)
    \/ \E c \in AllIds : \E r \in HistoryResponses(c) : \E t \in Times :
           HistoryResolve(c, r, t)
    \/ \E content \in {"n"} : HandleSendMessage(content)
    \/ StreamError

SpecSession == Init /\ [][NextSession]_vars

(***************************************************************************)
(*                              PROPERTIES                                 *)
(***************************************************************************)

\* C1: when the response of a history fetch issued for conversation c
\* arrives after another conversation was selected in the directory (a stored
\* one, or a new ephemeral one by "New chat"), so that c is no longer the
\* current conversation, the result is not applied: the hydrated history,
\* the error and the loading flag are left as they are.
C1_StaleHistoryDiscarded ==
    [][\A c \in AllIds :
          (histInflight'[c] < histInflight[c] /\ chatId # c /\ persist)
              => /\ initialMessages' = initialMessages
                 /\ chatError' = chatError]_vars

\* C2: a finished discovery request answers with success (200 and an
\* identity) only if some candidate was accepted, i.e. answered 2xx JSON with
\* a name or an agent_id.
C2_SuccessOnlyIfAccepted ==
    (rpc = "done" /\ req = "url" /\ response.status = 200)
        => \E i \in 1..NumCandidates : Accepted(cand[i])

\* C3: the candidates are probed in the order of pathsToTry, one at a time,
\* a candidate only after all earlier ones were handled and not accepted;
\* probing stops at the first accepted candidate and the identity returned
\* is the normalised body of that candidate.
C3_ProbesInOrderUntilFirstAccepted ==
    LET first == IF \E i \in 1..NumCandidates : Accepted(cand[i])
                 THEN CHOOSE i \in 1..NumCandidates :
                          Accepted(cand[i]) /\ \A j \in 1..(i - 1) : ~Accepted(cand[j])
                 ELSE 0
    IN  /\ Len(probeLog) <= NumCandidates
        /\ \A i \in 1..Len(probeLog) : probeLog[i] = pathsToTry[i]
        /\ \A i \in 1..(Len(probeLog) - 1) : ~Accepted(cand[i]) /\ i < pos
        /\ rpc = "await" => pos = Len(probeLog)
        /\ (rpc \in {"after", "done"} /\ req = "url" /\ first # 0)
               => Len(probeLog) = first
        /\ (rpc = "done" /\ req = "url" /\ first # 0)
               => response = [status |-> 200,
                              data |-> NormalizeMetadata(cand[first].body)]

\* C3 happens: the first candidate failed, the second answered JSON that is
\* not an agent config, the third was accepted and the request succeeded
C3_Witness ==
    /\ rpc = "done" /\ req = "url"
    /\ cand[1].kind = "throw"
    /\ cand[2].kind = "json" /\ ~Accepted(cand[2])
    /\ Accepted(cand[3])
    /\ Len(probeLog) = 3
    /\ response.status = 200

\* C4: at any time at most one rename or delete request is in flight for any
\* one conversation id.
C4_OneMutationInFlightPerId ==
    \A c \in ServerIds :
        Cardinality({k \in 1..Len(requests) :
                        requests[k].kind \in {"rename", "delete"}
                        /\ requests[k].id = c}) <= 1

\* C5: when a delete request for the session's current conversation succeeds,
\* the session moves to a new ephemeral id with an empty history; a
\* successful delete of another conversation leaves the current id as it is.
C5_DeleteOfCurrentResetsSession ==
    [][(event'.op = "deleteDone" /\ event'.ok)
          => IF event'.id = chatId
             THEN /\ chatId' # chatId /\ StartsWithDebug(chatId')
                  /\ initialMessages' = <<>>
             ELSE chatId' = chatId]_vars

\* C6: when a rename request fails (non-2xx, success false, or no answer),
\* the cache is unchanged, the editing mode and the typed title are as they
\* were, and the conversation is no longer marked as updating.
C6_RenameFailureKeepsEditing ==
    [][(event'.op = "renameDone" /\ ~event'.ok)
          => /\ chats' = chats
             /\ editingChatId' = editingChatId
             /\ editingTitle' = editingTitle
             /\ updatingChatId' # event'.id]_vars

\* C6 happens: a rename has just failed while its conversation is still being
\* edited with a non-blank typed title, and its input is enabled again
C6_Witness ==
    /\ event.op = "renameDone" /\ ~event.ok
    /\ editingChatId = event.id
    /\ editingTitle = event.typed /\ editingTitle = <<160, 233, 8203, 13>>
    /\ updatingChatId = NoId
    /\ event.id \in ChatIds(chats)

\* C7: when the response of a delete request arrives, on success exactly the
\* entry with that id leaves the cache and the confirmation closes; on
\* failure the cache and the confirmation are unchanged; and confirming the
\* delete does not change the cache before the response.
C7_DeleteRemovesExactlyThatEntry ==
    [][IF event'.op = "deleteDone"
       THEN IF event'.ok
            THEN chats' = FilterOut(chats, event'.id) /\ deleteConfirm' = NoChat
            ELSE chats' = chats /\ deleteConfirm' = deleteConfirm
       ELSE (requests' # requests /\ Len(requests') > Len(requests))
                => chats' = chats]_vars

\* C8: when a rename succeeds and no other directory request was in flight
\* together with it, the cache changes only in the entry of that id: its
\* title becomes the title the service returned, else the trimmed typed
\* title, and its updated_at becomes the current time; the other entries and
\* the order are as before.  Saving the edit changes no entry before the
\* response.
C8_RenameSuccessChangesThatEntryOnly ==
    [][/\ (event'.op = "renameDone" /\ event'.ok /\ event'.solo)
           => /\ Len(chats') = Len(chats)
              /\ \A i \in 1..Len(chats) :
                    chats'[i] =
                        IF chats[i].id = event'.id
                        THEN [chats[i] EXCEPT
                                 !.title = IF event'.serverTitle # <<>>
                                           THEN event'.serverTitle
                                           ELSE Trim(event'.typed),
                                 !.updated_at = event'.at]
                        ELSE chats[i]
       /\ event'.op = "editSave" => chats' = chats]_vars

\* C8 happens: a rename with no overlapping request has just succeeded
\* without a title from the service, and the entry carries the trimmed typed
\* title and the new stamp
C8_Witness ==
    /\ event.op = "renameDone" /\ event.ok /\ event.solo
    /\ event.serverTitle = <<>> /\ event.typed = <<160, 233, 8203, 13>>
    /\ \E i \in 1..Len(chats) :
          /\ chats[i].id = event.id
          /\ chats[i].title = <<233, 8203>>
          /\ chats[i].updated_at = event.at /\ event.at > 0
    /\ Len(chats) = 2

\* C9: saving an edit whose typed title is empty or only whitespace sends no
\* request, leaves the cache unchanged and marks no conversation as updating.
C9_BlankTitleRejectedLocally ==
    [][(event'.op = "editSave"
          /\ \A i \in 1..Len(editingTitle) : editingTitle[i] \in Whitespace)
          => /\ requests' = requests /\ issued' = issued
             /\ chats' = chats
             /\ updatingChatId' = updatingChatId
             /\ updatingChatId' # event'.id]_vars

\* C9 happens: a save of a whitespace-only title has just been rejected
C9_Witness ==
    /\ event.op = "editSave" /\ ~event.ok
    /\ editingTitle = <<13, 12288>>
    /\ editingChatId = event.id
    /\ requests = <<>> /\ updatingChatId = NoId

\* C10: a history request is sent only for the current conversation, when its
\* id is not ephemeral, persistence is on and the service URL is set; when
\* the conversation, the URL or persistence changes to an ephemeral id, to
\* persistence off or to no URL, no request is sent and the history is empty
\* at once.
C10_HistoryRequestOnlyForStoredConversation ==
    [][/\ \A c \in AllIds :
             histInflight'[c] > histInflight[c]
                 => /\ c = chatId' /\ ~StartsWithDebug(c)
                    /\ persist' /\ serviceUrl' # ""
       /\ (/\ <<chatId', serviceUrl', persist'>> # <<chatId, serviceUrl, persist>>
           /\ (StartsWithDebug(chatId') \/ ~persist' \/ serviceUrl' = ""))
              => /\ histInflight' = histInflight
                 /\ initialMessages' = <<>>]_vars

\* C10 happens: a request was sent for a stored conversation, and the session
\* has since moved to a new ephemeral id, for which none was sent
C10_Witness ==
    /\ persist /\ serviceUrl # "" /\ status = "connected"
    /\ mints > 0 /\ StartsWithDebug(chatId)
    /\ \E c \in ServerIds : histInflight[c] > 0
    /\ histInflight[chatId] = 0
    /\ initialMessages = <<>>

\* C11: when a discovery succeeds, the status becomes connected and the
\* session gets a new ephemeral conversation id, different from the one
\* before.
C11_DiscoverySuccessMintsSession ==
    [][DiscoverResolve(TRUE)
          => /\ status' = "connected"
             /\ chatId' # chatId /\ StartsWithDebug(chatId')]_vars

\* C12: when a discovery fails, the status becomes error and the agent
\* identity is the one held before the failure.
C12_ErrorRetainsIdentity ==
    [][DiscoverResolve(FALSE)
          => /\ status' = "error"
             /\ agentInfo' = agentInfo]_vars

\* C13: clearing the configuration, whatever the status and whether or not a
\* discovery is in flight, leaves status disconnected, no agent identity, no
\* discovery error, no chat error, a new ephemeral conversation id that was
\* never used before, and an empty hydrated history.
C13_ClearConfigStartsOver ==
    [][HandleClearConfig
          => /\ status' = "disconnected"
             /\ agentInfo' = NoAgent
             /\ discoveryError' = NoError /\ chatError' = NoError
             /\ StartsWithDebug(chatId') /\ chatId' # chatId
             /\ chatId'.n > mints
             /\ initialMessages' = <<>>]_vars

\* C13 happens: the configuration was cleared while a stored conversation was
\* open with the agent connected and a discovery in flight
C13_Witness ==
    /\ event.op = "clearConfig" /\ event.id \in ServerIds
    /\ isDiscovering
    /\ status = "disconnected" /\ agentInfo = NoAgent
    /\ StartsWithDebug(chatId) /\ initialMessages = <<>>

\* C14: "new chat" (from the configuration panel or from the sidebar) gives
\* the session a new ephemeral conversation id that was never used before and
\* an empty hydrated history; agent identity, status and persistence flag are
\* unchanged.
C14_NewChatFrame ==
    [][(HandleResetChat \/ SidebarNewChat)
          => /\ StartsWithDebug(chatId') /\ chatId' # chatId
             /\ chatId'.n > mints
             /\ initialMessages' = <<>>
             /\ agentInfo' = agentInfo /\ status' = status
             /\ persist' = persist]_vars

\* C14 happens: a new chat was started while a stored conversation was open
\* in a connected session
C14_Witness ==
    /\ event.op = "newChat" /\ event.id \in ServerIds
    /\ status = "connected" /\ agentInfo = AgentX /\ persist
    /\ StartsWithDebug(chatId) /\ initialMessages = <<>>

\* C15: every change of the persistence flag, in either direction, gives the
\* session a new ephemeral conversation id that was never used before and an
\* empty hydrated history.
C15_PersistToggleStartsOver ==
    [][(persist' # persist)
          => /\ StartsWithDebug(chatId') /\ chatId' # chatId
             /\ chatId'.n > mints
             /\ initialMessages' = <<>>]_vars

\* C15 happens: persistence was switched off while a stored conversation was
\* open whose history fetch is still in flight
C15_Witness ==
    /\ event.op = "persistChange" /\ event.id \in ServerIds
    /\ ~persist
    /\ histInflight[event.id] > 0
    /\ StartsWithDebug(chatId) /\ initialMessages = <<>>

\* C16: in every state the rendered message sequence is the stream's sequence
\* when the stream holds at least one message, and the hydrated history
\* otherwise; it is never both.
C16_MergePolicy ==
    /\ streamMessages # <<>> => Messages = streamMessages
    /\ streamMessages = <<>> => Messages = initialMessages

\* C16 happens: the stream holds messages while a hydrated history exists
C16_Witness ==
    /\ streamMessages # <<>> /\ initialMessages # <<>>
    /\ Messages = streamMessages

\* C17: a retry for message id m passes to sendMessage the content of the
\* nearest user message before the first message with id m in the rendered
\* sequence; when m is absent, first, or has no user message before it,
\* nothing is sent and nothing changes.
C17_RetryResendsNearestUserMessage ==
    [][event'.op = "retry"
          => LET at == {i \in 1..Len(Messages) : Messages[i].id = event'.id}
                 m == IF at = {} THEN 0
                      ELSE CHOOSE i \in at : \A j \in at : i <= j
                 users == {j \in 1..(m - 1) : Messages[j].role = "user"}
             IN IF users = {}
                THEN /\ ~event'.ok
                     /\ UNCHANGED <<sessionVars, sidebarVars, viewVars>>
                ELSE LET u == CHOOSE j \in users : \A k \in users : k <= j
                     IN /\ event'.ok
                        /\ sent' = Append(sent, Messages[u].content)
                        /\ UNCHANGED streamMessages]_vars

\* C17 happens: a retry of the assistant message that follows two user
\* messages has just sent the content of the second one
C17_Witness ==
    /\ event.op = "retry" /\ event.ok
    /\ Len(streamMessages) = 3
    /\ streamMessages[1].role = "user" /\ streamMessages[2].role = "user"
    /\ streamMessages[1].content # streamMessages[2].content
    /\ streamMessages[3].id = event.id /\ streamMessages[3].role = "assistant"
    /\ sent = <<streamMessages[2].content>>


\* ---- grouping and de-duplication: what the claims are stated over ----
Buckets == {"today", "yesterday", "previous7Days", "older"}

GroupingApplied == fn = "groupedChats" /\ result # Null

\* the position of a conversation in the list that was grouped
FetchIndex(chat) == CHOOSE i \in 1..Len(arg.chats) : arg.chats[i] = chat

\* the five conversations are grouped Today, Today, Yesterday, Previous 7
\* Days, Older
FiveGroupedAsStated ==
    LET five == FiveChats(arg.now)
    IN  /\ result.value.today = <<five[1], five[2]>>
        /\ result.value.yesterday = <<five[3]>>
        /\ result.value.previous7Days = <<five[4]>>
        /\ result.value.older = <<five[5]>>

\* C18 as stated: for any clock reading now, conversations updated at now,
\* now - 2h, now - 26h, now - 5d and now - 30d are grouped Today, Today,
\* Yesterday, Previous 7 Days and Older.
C18_FiveGroupedAtAnyTime ==
    (GroupingApplied /\ arg.chats = FiveChats(arg.now)) => FiveGroupedAsStated

\* C18, amended: for any clock reading now that is at least two hours after
\* local midnight, conversations updated at now, now - 2h, now - 26h,
\* now - 5d and now - 30d are grouped Today, Today, Yesterday, Previous 7
\* Days and Older.
C18_FiveGroupedTwoHoursAfterMidnight ==
    (GroupingApplied /\ arg.chats = FiveChats(arg.now)
        /\ arg.now - Today(arg.now) >= 2) => FiveGroupedAsStated

\* C18 happens: the five were grouped at exactly 02:00, when the second of
\* them was updated at local midnight
C18_Witness ==
    /\ GroupingApplied /\ arg.chats = FiveChats(arg.now)
    /\ arg.now - Today(arg.now) = 2
    /\ result.value.today = <<FiveChats(arg.now)[1], FiveChats(arg.now)[2]>>

\* C19: every conversation of the list is in exactly one of the four groups,
\* the one its updated_at (its created_at when it has no updated_at) selects
\* against local midnight, local midnight a day earlier and local midnight
\* seven days earlier; each group is in descending order of that time, and
\* conversations with equal times are in the order of the list.
C19_GroupingPartitionsAndSorts ==
    GroupingApplied =>
        LET groups == result.value
            stamp(c) == IF c.updated_at # 0 THEN c.updated_at ELSE c.created_at
            midnight == arg.now - (arg.now % 24)
            expected(c) == IF stamp(c) >= midnight THEN "today"
                           ELSE IF stamp(c) >= midnight - 24 THEN "yesterday"
                           ELSE IF stamp(c) >= midnight - 168 THEN "previous7Days"
                           ELSE "older"
            places(c) == {<<b, k>> \in Buckets \X (1..Len(arg.chats)) :
                              k <= Len(groups[b]) /\ groups[b][k] = c}
        IN  /\ DOMAIN groups = Buckets
            /\ \A i \in 1..Len(arg.chats) :
                  /\ Cardinality(places(arg.chats[i])) = 1
                  /\ \A pl \in places(arg.chats[i]) : pl[1] = expected(arg.chats[i])
            /\ \A b \in Buckets :
                  /\ \A k \in 1..Len(groups[b]) :
                        \E i \in 1..Len(arg.chats) : arg.chats[i] = groups[b][k]
                  /\ \A k \in 1..Len(groups[b]) : \A l \in (k + 1)..Len(groups[b]) :
                        /\ stamp(groups[b][k]) >= stamp(groups[b][l])
                        /\ stamp(groups[b][k]) = stamp(groups[b][l])
                              => FetchIndex(groups[b][k]) < FetchIndex(groups[b][l])

\* C19 happens: one group holds three conversations, the first fetched
\* without updated_at and older than the other two, which have equal times
C19_Witness ==
    /\ GroupingApplied /\ Len(arg.chats) = 3
    /\ arg.chats[1].updated_at = 0
    /\ arg.chats[2].updated_at # 0
    /\ arg.chats[2].updated_at = arg.chats[3].updated_at
    /\ arg.chats[1].created_at < arg.chats[2].updated_at
    /\ result.value.today = <<arg.chats[2], arg.chats[3], arg.chats[1]>>

\* C20: the normalised tool steps of a message hold each toolCallId of the
\* raw steps exactly once, as the first raw record carrying it, in the order
\* of those first records.
C20_ToolStepsDeduplicated ==
    (fn = "uniqueToolSteps" /\ result # Null) =>
        LET raw == arg.rawToolSteps
            out == result.value
            firsts == {i \in 1..Len(raw) :
                          \A j \in 1..(i - 1) : raw[j].toolCallId # raw[i].toolCallId}
            nth(k) == CHOOSE i \in firsts : Cardinality({j \in firsts : j <= i}) = k
        IN  /\ Len(out) = Cardinality(firsts)
            /\ \A k \in 1..Len(out) : out[k] = raw[nth(k)]
            /\ \A k \in 1..Len(out) : \A l \in (k + 1)..Len(out) :
                  out[k].toolCallId # out[l].toolCallId

\* C20 happens: the raw steps carried one toolCallId twice with different
\* payloads around another id, and the later record was dropped
C20_Witness ==
    /\ fn = "uniqueToolSteps" /\ result # Null
    /\ Len(arg.rawToolSteps) = 3
    /\ arg.rawToolSteps[1].toolCallId = arg.rawToolSteps[3].toolCallId
    /\ arg.rawToolSteps[1].payload # arg.rawToolSteps[3].payload
    /\ arg.rawToolSteps[2].toolCallId # arg.rawToolSteps[1].toolCallId
    /\ result.value = <<arg.rawToolSteps[1], arg.rawToolSteps[2]>>


\* the answers of the service that make a history load fail: a non-2xx
\* status, or a transport or parse error
FailedHistoryResponses == {[kind |-> "http_error"], [kind |-> "throw"]}

\* C21: when a history load fails (non-2xx answer, transport or parse error),
\* a chat error is set and the hydrated history is empty, and the agent
\* identity, the connection status, the persistence flag and the session's
\* conversation id are exactly as they were.
C21_FailedHistoryLoadIsLocal ==
    [][\A c \in AllIds : \A r \in FailedHistoryResponses : \A t \in Times :
          HistoryResolve(c, r, t)
              => /\ chatError' # NoError
                 /\ initialMessages' = <<>>
                 /\ UNCHANGED <<agentInfo, status, persist, chatId>>]_vars

\* C21 happens: the history load of the stored conversation that is open in
\* a connected, persistent session has failed with a non-2xx answer
C21_Witness ==
    /\ chatError = "Failed to load chat messages"
    /\ initialMessages = <<>> /\ ~isLoadingMessages
    /\ chatId \in ServerIds /\ histInflight[chatId] = 0
    /\ status = "connected" /\ agentInfo = AgentX /\ persist


\* C22: every failed asynchronous operation of the directory leaves an error
\* in its state: after a rename or a delete fails, and after a list load
\* fails, the directory holds an error message (`error` is the only cell of
\* the directory's state that can hold one).
C22_EveryFailureReported ==
    [][/\ (event'.op \in {"renameDone", "deleteDone"} /\ ~event'.ok)
            => error' # NoError
       /\ \A k \in 1..Len(requests) :
             \A r \in {[kind |-> "http_error"], [kind |-> "throw"]} :
                ListResolve(k, r) => error' # NoError]_vars


\* C23: in every state no two entries of the directory's cache have the same
\* id, whatever list, rename and delete requests (every list response having
\* unique ids) have completed and in whatever order; the same holds of every
\* copy of the cache a pending request has captured.
C23_CacheIdsUnique ==
    /\ \A i, j \in 1..Len(chats) : i # j => chats[i].id # chats[j].id
    /\ \A k \in 1..Len(requests) :
          \A i, j \in 1..Len(requests[k].chats) :
             i # j => requests[k].chats[i].id # requests[k].chats[j].id

\* C23 happens: a rename that overlapped with another request has just been
\* applied to the copy of the cache it had captured, and the cache holds two
\* conversations
C23_Witness ==
    /\ event.op = "renameDone" /\ event.ok /\ ~event.solo
    /\ Len(chats) = 2 /\ chats[1].id # chats[2].id
    /\ event.id \in ChatIds(chats)


\* the three shapes of body gave the same hydrated history
ThreeShapesAgree ==
    /\ result.value.envelope = result.value.array
    /\ result.value.array = result.value.data

\* C24 as stated: for any message list M, a body with the fields success and
\* messages: M, the bare array M and a body with the field data: M give the
\* same hydrated history.
C24_ThreeShapesSameHistory ==
    (fn = "hydrate" /\ result # Null) => ThreeShapesAgree

\* C24, amended: for any message list M, a body {success, messages: M} whose
\* success is truthy or whose M is empty, the bare array M and a body
\* {data: M} give the same hydrated history.
C24_ThreeShapesSameHistoryOnSuccess ==
    (fn = "hydrate" /\ result # Null /\ (arg.success \/ arg.messages = <<>>))
        => ThreeShapesAgree

\* C24 happens: a list of two messages, the second with duplicated tool
\* steps, was hydrated from the three shapes with success true
C24_Witness ==
    /\ fn = "hydrate" /\ result # Null /\ arg.success
    /\ Len(arg.messages) = 2 /\ arg.messages[2].annotation.present
    /\ Len(result.value.envelope) = 2 /\ Len(result.value.data) = 2
    /\ Len(result.value.envelope[2].toolSteps) = 2


\* C25: when a rename or a delete of one conversation completes right after
\* a successful rename or delete of another conversation, the effect of the
\* earlier one is still in the cache: no id that was not in the cache appears
\* in it (the removed conversation does not come back), and no other
\* conversation's title changes (the applied title is not reverted).
C25_NoLostUpdate ==
    [][(/\ event.op \in {"renameDone", "deleteDone"} /\ event.ok
        /\ event'.op \in {"renameDone", "deleteDone"} /\ event'.id # event.id)
          => /\ ChatIds(chats') \subseteq ChatIds(chats)
             /\ \A i \in 1..Len(chats) : \A j \in 1..Len(chats') :
                   (chats'[j].id = chats[i].id /\ chats[i].id # event'.id)
                       => chats'[j].title = chats[i].title]_vars


\* a non-empty hydrated history consists of messages of the session's
\* current conversation, which is a stored one
HistoryOfCurrentConversation ==
    initialMessages # <<>>
        => /\ ~StartsWithDebug(chatId)
           /\ \A i \in 1..Len(initialMessages) : initialMessages[i].id.chat = chatId.n

\* C26: from the moment the session's conversation id changes, also while
\* the history fetch of the newly selected conversation is pending, a
\* non-empty hydrated history consists of messages of the new current
\* conversation, never of the one that was open before.
C26_HistoryBelongsToCurrentConversation ==
    [][chatId' # chatId => HistoryOfCurrentConversation']_vars


\* C27: while the sidebar is open with a service URL configured, the loading
\* flag is set only while a list request is in flight (so that the loading
\* state ends when that request is answered); in particular after "Try
\* again".
C27_LoadingOnlyWhileListInFlight ==
    (persist /\ isChatSidebarOpen /\ serviceUrl # "" /\ loading)
        => \E k \in 1..Len(requests) : requests[k].kind = "list"


\* C28: in every state, status connected implies that an agent identity is
\* present and status disconnected implies that none is, whatever
\* discoveries (successful or failed), clearConfig, stream errors, new chats,
\* selections and persistence toggles happened.
C28_StatusMatchesIdentity ==
    /\ status = "connected" => agentInfo # NoAgent
    /\ status = "disconnected" => agentInfo = NoAgent

\* C28 happens: a discovery has just succeeded in a session that had sent a
\* message and then got a new conversation id, and the session is connected
\* with an identity
C28_Witness ==
    /\ event.op = "discoverDone" /\ event.ok
    /\ sent # <<>> /\ mints > 0
    /\ status = "connected" /\ agentInfo = AgentX


\* C29: when the rename of one conversation completes (success or failure)
\* while another conversation is being edited, that other conversation is
\* still being edited with its typed title, and whether it is marked as
\* updating is as before.
C29_RenameCompletionLeavesOtherEdit ==
    [][(event'.op = "renameDone" /\ editingChatId # NoId
            /\ editingChatId # event'.id)
          => /\ editingChatId' = editingChatId
             /\ editingTitle' = editingTitle
             /\ (updatingChatId' = editingChatId) = (updatingChatId = editingChatId)]_vars

\* C30: when the answer of a discovery arrives right after clearConfig was
\* invoked while that discovery was pending, the controller stays
\* disconnected without an agent identity.
C30_ClearConfigSupersedesDiscovery ==
    [][(event.op = "clearConfig" /\ isDiscovering /\ event'.op = "discoverDone")
          => status' = "disconnected" /\ agentInfo' = NoAgent]_vars

=============================================================================
